---------------------------- MODULE Spec2Model ----------------------------
(***************************************************************************)
(* PET-scan Monte Carlo simulator: the simulate-and-filter pipeline of     *)
(* petscan3.py (ray / ring intersection) and of "pet scan.py" (direct      *)
(* angle pair).  Plotting is not modelled.                                  *)
(*                                                                         *)
(* Numbers.  Python floats are modelled in fixed point: a length, a        *)
(* coordinate, a cosine or a probability v is the integer v * SCALE.       *)
(* Products keep the product of the scales and are exact; only sqrt and    *)
(* the divisions round (to nearest, as IEEE arithmetic does).              *)
(*                                                                         *)
(* Angles.  An angle is a code in 0 .. TWO_PI-1 with PI = 8.  An even code *)
(* 2k is exactly k*pi/4.  An odd code 2k+1 is an angle strictly between    *)
(* k*pi/4 and (k+1)*pi/4; as an emission angle its representative is the   *)
(* 3-4-5 triangle's angle of that sector (cos, sin in {3/5, 4/5}), so that *)
(* adding PI maps representative to representative.  Comparisons against   *)
(* multiples of pi/4, the only ones the programs make, are exact on codes. *)
(***************************************************************************)
EXTENDS Integers, Sequences, FiniteSets

VARIABLES
    variant,          \* which script runs: "petscan3" or "pet_scan"
    pc,               \* position in the script
    run,              \* 1: first execution, 2: re-execution with the same seed
    i,                \* completed iterations of the simulation loop
    x_source,         \* module globals / call arguments
    y_source,
    correlated,
    angle1,           \* locals of the last detect_photons call
    angle2,
    photon1,
    photon2,
    event_data,
    filtered_events,
    stream,           \* values the seeded generator has produced, in order
    pos,              \* how many of them this execution has consumed
    prev_event_data,      \* outputs of the first execution, kept by the observer
    prev_filtered_events

vars == <<variant, pc, run, i, x_source, y_source, correlated, angle1, angle2,
          photon1, photon2, event_data, filtered_events, stream, pos,
          prev_event_data, prev_filtered_events>>

----------------------------------------------------------------------------
(* Bounds and constants *)

\* Number of loop iterations of a run (1000 in the scripts).
NUM_EVENTS == 2

\* Fixed-point resolution: 1.0 is SCALE.  Divisible by 2 and by 25, so that
\* SOURCE_RADIUS and the 3-4-5 cosines and their products with it are exact.
SCALE == 50

SOURCE_RADIUS == 25         \* 0.5
DETECTOR_RADIUS == 250      \* 5
CORRELATED_PROB == 35       \* 0.7

\* np.pi as an angle code.
PI == 8
TWO_PI == 2 * PI

\* None, as photon_to_detector returns it for a hit.
NONE == <<>>

VARIANTS == {"petscan3", "pet_scan"}

\* Raw generator outputs u in [0,1) are u / TWO_PI for u in 0 .. TWO_PI-1.
\* The full runs draw from RUN_DRAWS (u = 0, 1/2, 3/4), single calls from
\* all of FN_DRAWS.  The diagonals (codes 2, 6, 10, 14) are not drawn: their
\* cosines are irrational and the cosine table would round them by 1%.
RUN_DRAWS == {0, 8, 12}
FN_DRAWS == {0, 1, 3, 4, 5, 7, 8, 9, 11, 12, 13, 15}

----------------------------------------------------------------------------
(* Arithmetic *)

Abs(n) == IF n < 0 THEN -n ELSE n

\* n / d rounded to nearest, d > 0.
RDiv(n, d) == (2 * n + d) \div (2 * d)

RECURSIVE Newton(_, _)
Newton(n, x) ==
    LET y == (x + n \div x) \div 2
    IN  IF y >= x THEN x ELSE Newton(n, y)

\* np.sqrt: the nearest integer to the square root of n, 0 <= n < 2^31
\* (Newton's iteration from 2^16, which is above every such root).
sqrt(n) ==
    LET m == n
        r == IF m = 0 THEN 0 ELSE Newton(m, 65536)
    IN  IF m - r * r > r THEN r + 1 ELSE r

\* np.cos by angle code, in fiftieths: exact on the codes that are drawn.
COS_TABLE ==
    <<50, 40, 35, 30, 0, -30, -35, -40, -50, -40, -35, -30, 0, 30, 35, 40>>

cos(angle) == (COS_TABLE[angle + 1] * SCALE) \div 50

\* np.sin: sin(t) = cos(t - pi/2).
sin(angle) == cos((angle + 3 * (PI \div 2)) % TWO_PI)

\* np.arctan2(y, x) as an angle code in -(PI-1) .. PI (there is no negative
\* zero in the integers: arctan2(0, x) is pi, never -pi, for x < 0).
arctan2(y, x) ==
    LET up(v, u) ==   \* v > 0
            IF u > 0 THEN (IF v < u THEN 1 ELSE IF v = u THEN 2 ELSE 3)
            ELSE IF u = 0 THEN 4
            ELSE (IF v > -u THEN 5 ELSE IF v = -u THEN 6 ELSE 7)
    IN  IF y = 0 THEN (IF x >= 0 THEN 0 ELSE PI)
        ELSE IF y > 0 THEN up(y, x)
        ELSE -up(-y, x)

\* np.random.uniform(low, high) for the raw generator output u.
uniform(low, high, u) == low + (u * (high - low)) \div TWO_PI

----------------------------------------------------------------------------
(* The scripts' functions *)

\* generate_photon_pair(), given the raw draw it consumes.
generate_photon_pair(u) ==
    LET angle == uniform(0, TWO_PI, u)
    IN  <<RDiv(SOURCE_RADIUS * cos(angle), SCALE),
          RDiv(SOURCE_RADIUS * sin(angle), SCALE)>>

\* The quadratic's coefficients (scale SCALE^2) and discriminant (SCALE^4).
quad_a(angle) == cos(angle) * cos(angle) + sin(angle) * sin(angle)
quad_b(xs, ys, angle) == 2 * (xs * cos(angle) + ys * sin(angle))

\* c with the radius not squared.
quad_c_unsquared(xs, ys) == xs * xs + ys * ys - DETECTOR_RADIUS * SCALE

quad_c(xs, ys) == xs * xs + ys * ys - DETECTOR_RADIUS * DETECTOR_RADIUS

\* b^2 + 4ac.
discriminant_plus(xs, ys, angle) ==
    LET a == quad_a(angle)
        b == quad_b(xs, ys, angle)
        c == quad_c(xs, ys)
    IN  b * b + 4 * a * c

discriminant(xs, ys, angle) ==
    LET a == quad_a(angle)
        b == quad_b(xs, ys, angle)
        c == quad_c(xs, ys)
    IN  b * b - 4 * a * c

\* A root (-b + s) / (2a) for s = -sqrt(D) or +sqrt(D), at scale SCALE^2.
quad_root(a, b, s) == RDiv((-b + s) * SCALE * SCALE, 2 * a)

\* The point source + t * direction.
point_at(xs, ys, angle, t) ==
    LET tt == t
    IN  <<xs + RDiv(tt * cos(angle), SCALE * SCALE),
          ys + RDiv(tt * sin(angle), SCALE * SCALE)>>

\* photon_to_detector(x_source, y_source, angle): the pair it returns.
photon_to_detector(xs, ys, angle) ==
    LET a == quad_a(angle)
        b == quad_b(xs, ys, angle)
        D == discriminant(xs, ys, angle)
        sqrt_discriminant == sqrt(D)
        t1 == quad_root(a, b, -sqrt_discriminant)
        t2 == quad_root(a, b, sqrt_discriminant)
    IN  IF D < 0
        THEN <<NONE, NONE>>
        ELSE <<point_at(xs, ys, angle, t1), point_at(xs, ys, angle, t2)>>

\* A quarter turn instead of a half turn.
opposite_angle_quarter(a) == (a + PI \div 2) % TWO_PI

\* angle2 of a correlated pair.
opposite_angle(a) == (a + PI) % TWO_PI

\* The emission angles detect_photons uses, for the raw draws d it consumes
\* in order: one when correlated, two otherwise (both scripts).
emission_angles(corr, d) ==
    LET a1 == uniform(0, TWO_PI, d[1])
    IN  <<a1, IF corr THEN opposite_angle(a1) ELSE uniform(0, TWO_PI, d[2])>>

\* Both angles drawn whatever the flag.
detect_draws_always_two(corr) == 2

\* How many raw draws detect_photons consumes.
detect_draws(corr) == IF corr THEN 1 ELSE 2

\* Source positions of single calls that generate_photon_pair does not
\* produce: the centre, inside the ring, on it, and outside it.
EXTRA_SOURCES ==
    {<<0, 0>>, <<150, 0>>, <<-100, 120>>, <<250, 0>>, <<150, 200>>,
     <<300, 0>>, <<0, -300>>, <<-240, 180>>}

SOURCES == {generate_photon_pair(u) : u \in FN_DRAWS} \cup EXTRA_SOURCES

\* photon_to_detector over the model's sources and angles, evaluated once.
INTERSECTIONS ==
    [s \in SOURCES, angle \in 0 .. (TWO_PI - 1) |->
        photon_to_detector(s[1], s[2], angle)]

\* petscan3.py: each photon is the FIRST point photon_to_detector returns.
detect_photons(xs, ys, a1, a2) ==
    <<INTERSECTIONS[<<xs, ys>>, a1][1], INTERSECTIONS[<<xs, ys>>, a2][1]>>

\* pet scan.py: the hits are placed on the ring at the emission angles.
ring_point(angle) ==
    <<RDiv(DETECTOR_RADIUS * cos(angle), SCALE),
      RDiv(DETECTOR_RADIUS * sin(angle), SCALE)>>

detect_photons_pet_scan(xs, ys, a1, a2) == <<ring_point(a1), ring_point(a2)>>

\* delta_phi of an event with two hits.
delta_phi(h1, h2) == arctan2(h2[2] - h1[2], h2[1] - h1[1])

\* petscan3.py's acceptance rule for an unpacked event: once the unpacking
\* has succeeded the four coordinates are numbers and the "is not None" test
\* is true.
accepts(h1, h2, corr) ==
    LET d == delta_phi(h1, h2)
    IN  \/ corr /\ Abs(d) >= PI - PI \div 4 /\ Abs(d) <= PI + PI \div 4
        \/ ~corr

\* pet scan.py's acceptance rule.
accepts_pet_scan(h1, h2, corr) ==
    corr /\ Abs(delta_phi(h1, h2) - PI) < PI \div 4

\* "(x1, y1), (x2, y2), correlated = event" raises TypeError when a hit is None.
unpack_raises(events) ==
    \E k \in 1 .. Len(events) : events[k][1] = NONE \/ events[k][2] = NONE

RECURSIVE filter_loop(_, _, _)
filter_loop(v, events, k) ==
    IF k > Len(events) THEN <<>>
    ELSE LET e == events[k]
             keep == IF v = "petscan3" THEN accepts(e[1], e[2], e[3])
                     ELSE accepts_pet_scan(e[1], e[2], e[3])
         IN  (IF keep THEN <<(<<e[1], e[2]>>)>> ELSE <<>>)
                 \o filter_loop(v, events, k + 1)

\* filter_photons(event_data) of script v, when it does not raise.
filter_photons(v, events) == filter_loop(v, events, 1)

----------------------------------------------------------------------------
(* The seeded generator *)

\* The k raw values the next k calls return: those the stream already holds
\* (a re-execution with the same seed), fresh ones from G past its end.
Draws(k, G) ==
    IF pos + k <= Len(stream)
    THEN {SubSeq(stream, pos + 1, pos + k)}
    ELSE {d \in [1 .. k -> G] :
            \A j \in 1 .. k : pos + j <= Len(stream) => d[j] = stream[pos + j]}

\* The stream once the draws d have been returned.
Consumed(d) ==
    IF pos + Len(d) <= Len(stream) THEN stream ELSE SubSeq(stream, 1, pos) \o d

----------------------------------------------------------------------------
(* The scripts as a state machine *)

\* One iteration too many.
loop_continues_off_by_one(n) == n <= NUM_EVENTS

\* for _ in range(NUM_EVENTS): whether another iteration follows n of them.
loop_continues(n) == n < NUM_EVENTS

\* The state of a script before its first statement.
Fresh ==
    /\ i = 0
    /\ x_source = 0 /\ y_source = 0
    /\ correlated = FALSE
    /\ angle1 = 0 /\ angle2 = 0
    /\ photon1 = NONE /\ photon2 = NONE
    /\ event_data = <<>>
    /\ filtered_events = <<>>
    /\ pos = 0

Init ==
    /\ variant \in VARIANTS
    /\ pc = (IF loop_continues(0) THEN "generate" ELSE "filter")
    /\ run = 1
    /\ stream = <<>>
    /\ prev_event_data = <<>>
    /\ prev_filtered_events = <<>>
    /\ Fresh

\* x_source, y_source = generate_photon_pair()
GeneratePhotonPair(G) ==
    /\ pc = "generate"
    /\ \E d \in Draws(1, G) :
          /\ x_source' = generate_photon_pair(d[1])[1]
          /\ y_source' = generate_photon_pair(d[1])[2]
          /\ stream' = Consumed(d)
    /\ pos' = pos + 1
    /\ pc' = "correlated"
    /\ UNCHANGED <<variant, run, i, correlated, angle1, angle2, photon1, photon2,
                   event_data, filtered_events, prev_event_data,
                   prev_filtered_events>>

\* correlated = np.random.uniform() < CORRELATED_PROB
DrawCorrelated(G) ==
    /\ pc = "correlated"
    /\ \E d \in Draws(1, G) :
          /\ correlated' = (uniform(0, SCALE, d[1]) < CORRELATED_PROB)
          /\ stream' = Consumed(d)
    /\ pos' = pos + 1
    /\ pc' = "detect"
    /\ UNCHANGED <<variant, run, i, x_source, y_source, angle1, angle2, photon1,
                   photon2, event_data, filtered_events, prev_event_data,
                   prev_filtered_events>>

\* photon1, photon2 = detect_photons(x_source, y_source, correlated)
\* event_data.append((photon1, photon2, correlated))
Detect(G) ==
    /\ pc = "detect"
    /\ \E d \in Draws(detect_draws(correlated), G) :
          LET a == emission_angles(correlated, d)
              h == IF variant = "petscan3"
                   THEN detect_photons(x_source, y_source, a[1], a[2])
                   ELSE detect_photons_pet_scan(x_source, y_source, a[1], a[2])
          IN  /\ angle1' = a[1]
              /\ angle2' = a[2]
              /\ photon1' = h[1]
              /\ photon2' = h[2]
              /\ event_data' = Append(event_data, <<h[1], h[2], correlated>>)
              /\ stream' = Consumed(d)
              /\ pos' = pos + Len(d)
    /\ UNCHANGED <<variant, run, x_source, y_source, correlated, filtered_events,
                   prev_event_data, prev_filtered_events>>

\* The loop body's last two statements, and the loop's test.
DetectPhotons(G) ==
    /\ Detect(G)
    /\ i' = i + 1
    /\ pc' = (IF loop_continues(i + 1) THEN "generate" ELSE "filter")

\* A single call of detect_photons followed by the filter.
CallDetectPhotons(G) ==
    /\ Detect(G)
    /\ i' = i
    /\ pc' = "filter"

\* filtered_events = filter_photons(event_data)
FilterPhotons ==
    /\ pc = "filter"
    /\ IF unpack_raises(event_data)
       THEN /\ pc' = "TypeError"
            /\ filtered_events' = filtered_events
       ELSE /\ pc' = "done"
            /\ filtered_events' = filter_photons(variant, event_data)
    /\ UNCHANGED <<variant, run, i, x_source, y_source, correlated, angle1, angle2,
                   photon1, photon2, event_data, stream, pos, prev_event_data,
                   prev_filtered_events>>

\* The script is executed again with the generator seeded as before.
Rerun ==
    /\ pc = "done"
    /\ run = 1
    /\ run' = 2
    /\ prev_event_data' = event_data
    /\ prev_filtered_events' = filtered_events
    /\ pc' = (IF loop_continues(0) THEN "generate" ELSE "filter")
    /\ i' = 0
    /\ x_source' = 0 /\ y_source' = 0
    /\ correlated' = FALSE
    /\ angle1' = 0 /\ angle2' = 0
    /\ photon1' = NONE /\ photon2' = NONE
    /\ event_data' = <<>>
    /\ filtered_events' = <<>>
    /\ pos' = 0
    /\ UNCHANGED <<variant, stream>>

Next ==
    \/ GeneratePhotonPair(RUN_DRAWS)
    \/ DrawCorrelated(RUN_DRAWS)
    \/ DetectPhotons(RUN_DRAWS)
    \/ FilterPhotons
    \/ Rerun

Spec == Init /\ [][Next]_vars

----------------------------------------------------------------------------
(* Single calls: detect_photons(x_source, y_source, correlated) for any     *)
(* source position and any angles, then filter_photons on its event.        *)

InitFn ==
    /\ variant \in VARIANTS
    /\ pc = "correlated"
    /\ run = 1
    /\ stream = <<>>
    /\ prev_event_data = <<>>
    /\ prev_filtered_events = <<>>
    /\ \E s \in SOURCES : x_source = s[1] /\ y_source = s[2]
    /\ i = 0
    /\ correlated = FALSE
    /\ angle1 = 0 /\ angle2 = 0
    /\ photon1 = NONE /\ photon2 = NONE
    /\ event_data = <<>>
    /\ filtered_events = <<>>
    /\ pos = 0

NextFn ==
    \/ DrawCorrelated(FN_DRAWS)
    \/ CallDetectPhotons(FN_DRAWS)
    \/ FilterPhotons

SpecFn == InitFn /\ [][NextFn]_vars

----------------------------------------------------------------------------
(* Properties *)

\* The hits of raw event e as a filtered entry.
pair_of(e) == <<e[1], e[2]>>

\* Whether the sequence q holds the value v.
holds(q, v) == \E k \in 1 .. Len(q) : q[k] = v

\* The source (xs, ys) lies inside the detector ring or on it.
inside_ring(xs, ys) == xs * xs + ys * ys <= DETECTOR_RADIUS * DETECTOR_RADIUS

\* Hit h lies ahead of the source along the emission angle: h = source + t * d
\* with t >= 0.
forward(h, angle) ==
    /\ h # NONE
    /\ (h[1] - x_source) * cos(angle) + (h[2] - y_source) * sin(angle) >= 0

\* Hit h is on the detector ring up to the rounding of the arithmetic: the
\* ring passes within half a unit 1/SCALE of h in each coordinate (lengths
\* are doubled to stay in the integers).
on_ring(h) ==
    LET ax == 2 * Abs(h[1])
        ay == 2 * Abs(h[2])
        rr == 4 * DETECTOR_RADIUS * DETECTOR_RADIUS
        lo == (IF ax > 0 THEN (ax - 1) * (ax - 1) ELSE 0)
                + (IF ay > 0 THEN (ay - 1) * (ay - 1) ELSE 0)
        hi == (ax + 1) * (ax + 1) + (ay + 1) * (ay + 1)
    IN  lo <= rr /\ rr <= hi

\* The chord angle of the pair is within pi/4 of pi (bounds included).
within_quarter_of_pi(h1, h2) == Abs(Abs(delta_phi(h1, h2)) - PI) <= PI \div 4

\* detect_photons has returned and its event is the last of event_data.
Detected == pc \in {"filter", "done", "TypeError"} /\ Len(event_data) >= 1

(* C1 -- petscan3.py: an event with a null hit is rejected by filter_photons  *)
(* whatever its correlated flag: the filter raises nothing, finishes its pass *)
(* over the list, and the event is not in the filtered output.               *)
C1_NullHitRejected ==
    (/\ variant = "petscan3"
     /\ pc \in {"done", "TypeError"}
     /\ \E k \in 1 .. Len(event_data) :
            event_data[k][1] = NONE \/ event_data[k][2] = NONE)
    => /\ pc = "done"
       /\ \A k \in 1 .. Len(event_data) :
            (event_data[k][1] = NONE \/ event_data[k][2] = NONE)
                => ~holds(filtered_events, pair_of(event_data[k]))

(* C2 -- petscan3.py: for a source inside the ring, the hit recorded for an   *)
(* emission angle (built from the smaller root t1) is the forward hit along   *)
(* the ray: hit = source + t * (cos(angle), sin(angle)) with t >= 0.          *)
C2_ForwardHit ==
    (/\ variant = "petscan3"
     /\ Detected
     /\ inside_ring(x_source, y_source))
    => forward(photon1, angle1) /\ forward(photon2, angle2)

(* C3 -- end to end: source angle 0 and angle1 = 0 on a correlated first      *)
(* event give source (0.5, 0), angle2 = pi, hit1 = (5, 0), hit2 = (-5, 0),    *)
(* deltaPhi = pi, and the event is in the filtered output.                    *)
C3_Scenario ==
    LET scenario ==
            /\ Len(stream) >= 3
            /\ stream[1] = 0
            /\ uniform(0, SCALE, stream[2]) < CORRELATED_PROB
            /\ stream[3] = 0
        hit1 == <<DETECTOR_RADIUS, 0>>
        hit2 == <<-DETECTOR_RADIUS, 0>>
    IN  scenario =>
          /\ (i = 0 /\ pc = "detect")
                => x_source = SOURCE_RADIUS /\ y_source = 0
          /\ (i = 1 /\ Len(event_data) = 1)
                => /\ angle1 = 0 /\ angle2 = PI
                   /\ event_data[1] = <<hit1, hit2, TRUE>>
                   /\ delta_phi(event_data[1][1], event_data[1][2]) = PI
          /\ pc = "done" => holds(filtered_events, <<hit1, hit2>>)

(* C4 -- filtering is idempotent on its output: the filtered list, every      *)
(* entry labelled correlated = true, filters to itself (same entries, same    *)
(* order), in both scripts.                                                   *)
C4_FilterIdempotent ==
    pc = "done" =>
        LET relabelled ==
                [k \in 1 .. Len(filtered_events) |->
                    <<filtered_events[k][1], filtered_events[k][2], TRUE>>]
        IN  /\ ~unpack_raises(relabelled)
            /\ filter_photons(variant, relabelled) = filtered_events

(* C5 -- every filtered entry comes from a raw event whose two hits exist     *)
(* and whose chord angle is within pi/4 of pi: the filtered output holds      *)
(* correlated pairs only, in both scripts.                                    *)
C5_OnlyCorrelatedPass ==
    pc = "done" =>
        \A k \in 1 .. Len(filtered_events) :
            LET f == filtered_events[k]
            IN  /\ f[1] # NONE /\ f[2] # NONE
                /\ within_quarter_of_pi(f[1], f[2])
                /\ holds(event_data, <<f[1], f[2], TRUE>>)

(* C6 -- the loop appends one event per iteration and never stops early:      *)
(* after it the raw list holds exactly NUM_EVENTS events, and the filtered    *)
(* list is never longer than the raw list.                                    *)
C6_EventCounts ==
    /\ Len(event_data) = i
    /\ i <= NUM_EVENTS
    /\ pc # "TypeError"
    /\ pc \in {"filter", "done"} => Len(event_data) = NUM_EVENTS
    /\ Len(filtered_events) <= Len(event_data)

C6_Witness ==
    /\ pc = "done"
    /\ Len(event_data) = NUM_EVENTS
    /\ Len(filtered_events) > 0
    /\ Len(filtered_events) < Len(event_data)

(* C7 -- every non-null hit stored in a raw event lies on the detector ring   *)
(* (x^2 + y^2 = DETECTOR_RADIUS^2 up to the arithmetic's resolution), for     *)
(* every source position and emission angle, in both scripts.                 *)
C7_HitsOnRing ==
    \A k \in 1 .. Len(event_data) :
        /\ event_data[k][1] # NONE => on_ring(event_data[k][1])
        /\ event_data[k][2] # NONE => on_ring(event_data[k][2])

C7_Witness ==
    /\ variant = "petscan3"
    /\ Detected
    /\ photon1 # NONE
    /\ photon1[1] # 0 /\ photon1[2] # 0
    /\ photon1[1] * photon1[1] + photon1[2] * photon1[2]
            # DETECTOR_RADIUS * DETECTOR_RADIUS
    /\ ~inside_ring(x_source, y_source)

(* C8 -- a raw event labelled correlated was produced from emission angles    *)
(* with angle2 = (angle1 + pi) mod 2 pi, and its label is the flag passed to  *)
(* detect_photons, in both scripts.                                           *)
C8_CorrelatedOpposite ==
    Detected =>
        LET e == event_data[Len(event_data)]
        IN  /\ e[3] = correlated
            /\ e[1] = photon1 /\ e[2] = photon2
            /\ <<photon1, photon2>> =
                  (IF variant = "petscan3"
                   THEN detect_photons(x_source, y_source, angle1, angle2)
                   ELSE detect_photons_pet_scan(x_source, y_source, angle1, angle2))
            /\ e[3] => /\ angle2 = (angle1 + PI) % TWO_PI
                       /\ cos(angle2) = -cos(angle1)
                       /\ sin(angle2) = -sin(angle1)

C8_Witness ==
    /\ Detected
    /\ event_data[1][3]
    /\ angle1 = PI + 5
    /\ angle2 = 5

\* The events the draws s[p+1], s[p+2], ... produce when each event consumes,
\* in this order: the source angle, the correlated flag, angle1, and angle2
\* only when the flag is false.
RECURSIVE events_of(_, _, _)
events_of(v, s, p) ==
    IF p + 3 > Len(s) THEN <<>>
    ELSE LET src == generate_photon_pair(s[p + 1])
             corr == uniform(0, SCALE, s[p + 2]) < CORRELATED_PROB
             n == IF corr THEN 3 ELSE 4
         IN  IF p + n > Len(s) THEN <<>>
             ELSE LET a1 == uniform(0, TWO_PI, s[p + 3])
                      a2 == IF corr THEN (a1 + PI) % TWO_PI
                            ELSE uniform(0, TWO_PI, s[p + 4])
                      h == IF v = "petscan3"
                           THEN detect_photons(src[1], src[2], a1, a2)
                           ELSE detect_photons_pet_scan(src[1], src[2], a1, a2)
                  IN  <<(<<h[1], h[2], corr>>)>> \o events_of(v, s, p + n)

(* C9 -- determinism: an execution that consumes the same draws as an         *)
(* earlier one produces the same raw and filtered lists; each event consumes  *)
(* its draws in the order source angle, correlated flag, angle1, then angle2  *)
(* only when uncorrelated.                                                    *)
C9_Determinism ==
    /\ (run = 2 /\ pc = "done")
          => /\ event_data = prev_event_data
             /\ filtered_events = prev_filtered_events
             /\ pos = Len(stream)
    /\ pc \in {"generate", "filter", "done"}
          => event_data = events_of(variant, SubSeq(stream, 1, pos), 0)

C9_Witness ==
    /\ run = 2
    /\ pc = "done"
    /\ Len(event_data) = NUM_EVENTS
    /\ \E j \in 1 .. Len(event_data) : event_data[j][3]
    /\ \E j \in 1 .. Len(event_data) : ~event_data[j][3]
    /\ Len(filtered_events) > 0
    /\ Len(filtered_events) < Len(event_data)

(* C10 -- petscan3.py: with the source inside the detector ring                *)
(* (DETECTOR_RADIUS > SOURCE_RADIUS) the discriminant is non-negative for     *)
(* every source position and emission angle, so no raw event has a null hit.  *)
C10_NoNullHitInside ==
    (/\ variant = "petscan3"
     /\ Detected
     /\ DETECTOR_RADIUS > SOURCE_RADIUS
     /\ inside_ring(x_source, y_source))
    => /\ discriminant(x_source, y_source, angle1) >= 0
       /\ discriminant(x_source, y_source, angle2) >= 0
       /\ photon1 # NONE /\ photon2 # NONE

C10_Witness ==
    /\ variant = "petscan3"
    /\ Detected
    /\ x_source = 0 /\ y_source = SOURCE_RADIUS
    /\ angle1 = 0
    /\ ~correlated /\ angle2 = PI \div 2 + 1
    /\ photon1 # NONE /\ photon2 # NONE

=============================================================================
